---- MODULE Spec2Model ----
(***************************************************************************)
(* The acceptance-test harness of context-server-rs:                       *)
(*   comprehensive_test.py, final_test_round2.py  (the two harness        *)
(*   scripts: test phase, summary, readiness assessment, exit) and        *)
(*   run_tests.py (the plain test loop).                                   *)
(*                                                                         *)
(* The model starts where a script sets test_results = {} (results = {}   *)
(* in run_tests.py): the toolchain installation and the build that come    *)
(* before only decide whether the subject binary is on disk, which is the  *)
(* variable binary.                                                        *)
(*                                                                         *)
(* Text is a sequence of fragments (strings); a + b is a \o b, s.lower()   *)
(* lowers every fragment, and "m in s" holds when m occurs in a fragment.  *)
(* A float percentage p / t * 100 is the pair <<100 * p, t>>: for every    *)
(* t below 20 the float comparisons with 70 and 90 agree with the exact    *)
(* ones (11 / 20 * 100 is the first quotient that rounds off an integer).  *)
(***************************************************************************)
EXTENDS Integers, Sequences, FiniteSets, TLC

VARIABLES
    script,        \* which script runs
    binary,        \* target/release/context-server-rs: "absent", "noexec", "exec"
    pc,            \* position in the script
    idx,           \* number of catalog entries already run
    test_results,  \* the Suite Report: name -> entry (of a result dict, the fields read later)
    returned,      \* the dict the latest run_command call returned, as returned
    event,         \* what subprocess.run did in that call
    invoked,       \* names of the Test Cases whose command was started, in order
    deviations,    \* number of commands that did not behave nominally so far
    passed,        \* summary: passed
    total,         \* summary: total
    percentage,    \* summary: percentage, as <<numerator, denominator>>
    checklist,     \* readiness_checklist / critical_tests: criterion -> BOOLEAN
    all_ready,     \* all_ready
    verdict,       \* the branch of the final decision that ran
    exit_code,     \* the argument of sys.exit
    codes,         \* install_and_build.py: the exit codes its steps returned, in order
    build_file,    \* install_and_build.py: what was written to build_output.txt
    fs,            \* cleanup.py: path -> content of the file there
    moved,         \* cleanup.py: move_files' counter
    faulted        \* cleanup.py: the pairs whose filesystem call raised

\* the state of install_and_build.py and scripts/cleanup.py
scriptVars == <<codes, build_file, fs, moved, faulted>>

vars == <<script, binary, pc, idx, test_results, returned, event, invoked,
          deviations, passed, total, percentage, checklist, all_ready,
          verdict, exit_code, scriptVars>>

-----------------------------------------------------------------------------
(* Bounds and program constants *)

\* At most this many commands of one run deviate from their nominal behaviour.
MaxDeviations == 4

\* In the evaluator-only specification, a report has at most this many entries.
MaxEvalEntries == 3

ReadyThreshold == 90
MostlyThreshold == 70
HarnessFailureCode == -1
BinaryMissingCode == 1
NotReadyExit == 1

-----------------------------------------------------------------------------
(* Text *)

HelpText == "Commands: serve query list search get. Examples:"
JsonText == "{\"status\": \"ok\"}"
OkText == "ok"
ErrorText == "Error: failed"
NotFoundText == "Not Found"
DeniedText == "Permission denied"
TimeoutOutput == "TIMEOUT"
TimeoutMarker == "Command timed out"
SpawnMessage == "spawn failed"

\* str.lower() on one fragment
LowerFragment(f) ==
    CASE f = HelpText -> "commands: serve query list search get. examples:"
      [] f = JsonText -> "{\"status\": \"ok\"}"
      [] f = ErrorText -> "error: failed"
      [] f = NotFoundText -> "not found"
      [] f = DeniedText -> "permission denied"
      [] f = TimeoutOutput -> "timeout"
      [] f = TimeoutMarker -> "command timed out"
      [] OTHER -> f

\* the marker words that occur in a fragment, case-sensitively
Occurring(f) ==
    CASE f = "commands: serve query list search get. examples:" ->
             {"serve", "query", "list", "search", "get", "example"}
      [] f = HelpText -> {"serve", "query", "list", "search", "get"}
      [] f = JsonText -> {"\"status\""}
      [] f = "error: failed" -> {"error"}
      [] f = "not found" -> {"not found"}
      [] OTHER -> {}

Lower(s) == [i \in 1..Len(s) |-> LowerFragment(s[i])]

In(m, s) == \E i \in 1..Len(s) : m \in Occurring(s[i])

\* dict.get(key, default)
Get(d, key, default) == IF key \in DOMAIN d THEN d[key] ELSE default


-----------------------------------------------------------------------------
(* What subprocess.run can do with a command *)

Exit(rc, out, err) ==
    [kind |-> "exit", rc |-> rc, stdout |-> out, stderr |-> err, msg |-> ""]

TimedOut ==
    [kind |-> "timeout", rc |-> 0, stdout |-> <<>>, stderr |-> <<>>, msg |-> ""]

Raised(m) ==
    [kind |-> "raise", rc |-> 0, stdout |-> <<>>, stderr |-> <<>>, msg |-> m]

NoEvent ==
    [kind |-> "none", rc |-> 0, stdout |-> <<>>, stderr |-> <<>>, msg |-> ""]

\* the behaviours of a command the model draws from
Events ==
    { Exit(0, <<HelpText>>, <<>>),
      Exit(0, <<JsonText>>, <<>>),
      Exit(0, <<OkText>>, <<>>),
      Exit(1, <<NotFoundText>>, <<>>),
      Exit(1, <<OkText>>, <<ErrorText>>),
      Exit(0, <<ErrorText>>, <<>>),
      TimedOut,
      Raised(SpawnMessage) }

-----------------------------------------------------------------------------
(* run_command: the Execution Primitive of the two harness scripts *)

\* an exception that leaves a function, as the value the caller gets
Exception(m) == [exception |-> m]

Propagated(r) == "exception" \in DOMAIN r

\* the return of the try block
Completed(ev) ==
    [success |-> ev.rc = 0,
     returncode |-> ev.rc,
     output |-> ev.stdout \o ev.stderr,
     stdout |-> ev.stdout,
     stderr |-> ev.stderr]

\* except subprocess.TimeoutExpired
OnTimeout ==
    [success |-> FALSE,
     returncode |-> HarnessFailureCode,
     output |-> <<TimeoutOutput>>,
     stdout |-> <<>>,
     stderr |-> <<TimeoutMarker>>]

\* except Exception as e
OnException(m) ==
    [success |-> FALSE,
     returncode |-> HarnessFailureCode,
     output |-> <<m>>,
     stdout |-> <<>>,
     stderr |-> <<m>>]

\* run_command without its second except clause
run_command_NoExcept(ev) ==
    CASE ev.kind = "exit" -> Completed(ev)
      [] ev.kind = "timeout" -> OnTimeout
      [] OTHER -> Exception(ev.msg)

\* run_command reporting a timeout as a plain failed exit
run_command_TimeoutAsExit(ev) ==
    CASE ev.kind = "exit" -> Completed(ev)
      [] ev.kind = "timeout" ->
           [success |-> FALSE,
            returncode |-> 1,
            output |-> <<TimeoutOutput>>,
            stdout |-> <<>>,
            stderr |-> <<>>]
      [] OTHER -> OnException(ev.msg)

run_command(ev) ==
    CASE ev.kind = "exit" -> Completed(ev)
      [] ev.kind = "timeout" -> OnTimeout
      [] OTHER -> OnException(ev.msg)

-----------------------------------------------------------------------------
(* The catalogs: name, success policy, and whether the command line ends   *)
(* in a pipe (its exit status is then that of head / tail)                 *)

TC(n, p, piped) == [name |-> n, policy |-> p, piped |-> piped]

ComprehensiveCatalog ==
    << TC("1. Help Command", "help", FALSE),
       TC("2a. Query Format - JSON", "default", TRUE),
       TC("2b. Query Format - Text", "default", TRUE),
       TC("2c. Query Format - YAML", "default", TRUE),
       TC("3a. Search - Encryption", "default", FALSE),
       TC("3b. Search - Payment", "default", FALSE),
       TC("3c. Search - User", "default", FALSE),
       TC("4. List Features", "default", FALSE),
       TC("5. Get Command", "as-returned", FALSE),
       TC("6. Error Handling", "inverse", FALSE) >>

Round2Catalog ==
    << TC("1. Help Command", "help", FALSE),
       TC("2a. Query Format - JSON", "json", TRUE),
       TC("2b. Query Format - Text", "default", TRUE),
       TC("2c. Query Format - YAML", "default", TRUE),
       TC("3a. Search - Encryption", "lenient", FALSE),
       TC("3b. Search - Payment", "lenient", FALSE),
       TC("3c. Search - User", "lenient", FALSE),
       TC("4. List Features", "lenient", TRUE),
       TC("5. Get Command", "always", FALSE),
       TC("6. Error Handling", "inverse", FALSE) >>

RunTestsCatalog ==
    << TC("Build Release Binary", "loop", TRUE),
       TC("Test Help", "loop", FALSE),
       TC("Test Query Command", "loop", FALSE),
       TC("Test Search Performance", "loop", FALSE),
       TC("Test Search Feature", "loop", FALSE),
       TC("Test List Feature", "loop", FALSE) >>

Scripts == {"comprehensive_test", "final_test_round2", "run_tests"}

HarnessScripts == {"comprehensive_test", "final_test_round2"}

Catalog(s) ==
    CASE s = "comprehensive_test" -> ComprehensiveCatalog
      [] s = "final_test_round2" -> Round2Catalog
      [] OTHER -> RunTestsCatalog

CatalogNames(s) == {Catalog(s)[i].name : i \in 1..Len(Catalog(s))}

BinaryCheck == "Binary Check"

-----------------------------------------------------------------------------
(* Success predicates: the assignment to test_results[test_name]['success'] *)
(* that follows each run_command call                                       *)

HelpWords == {"serve", "query", "list", "search", "get", "example"}

\* result['returncode'] == 0 and all_passed
HelpPredicate(r) ==
    r.returncode = 0 /\ \A w \in HelpWords : In(w, Lower(r.stdout))

\* result['returncode'] == 0 and is_valid_json
JsonPredicate(r) ==
    r.returncode = 0
    /\ (In("\"status\"", r.stdout) \/ In("success", Lower(r.stdout)))

\* a default predicate that takes every status up to zero for success
DefaultPredicate_NonPositive(r) == r.returncode <= 0

\* result['returncode'] == 0
DefaultPredicate(r) == r.returncode = 0

\* a lenient predicate that looks for 'error' without lower()
LenientPredicate_CaseSensitive(r) == r.returncode = 0 \/ ~In("error", r.output)

\* result['returncode'] == 0 or 'error' not in result['output'].lower()
LenientPredicate(r) == r.returncode = 0 \/ ~In("error", Lower(r.output))

\* an inverse predicate that looks for its markers without lower()
InversePredicate_CaseSensitive(r) ==
    r.returncode # 0 \/ In("not found", r.output) \/ In("error", r.output)

\* result['returncode'] != 0 or 'not found' in ... or 'error' in ...
InversePredicate(r) ==
    r.returncode # 0
    \/ In("not found", Lower(r.output))
    \/ In("error", Lower(r.output))

Overall(policy, r) ==
    CASE policy = "help" -> HelpPredicate(r)
      [] policy = "json" -> JsonPredicate(r)
      [] policy = "default" -> DefaultPredicate(r)
      [] policy = "as-returned" -> r.success
      [] policy = "lenient" -> LenientPredicate(r)
      [] policy = "always" -> TRUE
      [] OTHER -> InversePredicate(r)

\* the fields of a result dict that the summary and the assessment read
Entry(ok, rc) == [success |-> ok, returncode |-> rc]

\* run_tests.py: the body of the loop, try and both except clauses
LoopEntry(ev) ==
    IF ev.kind = "exit"
    THEN Entry(ev.rc = 0, ev.rc)
    ELSE Entry(FALSE, HarnessFailureCode)

-----------------------------------------------------------------------------
(* The summary: passed, total, percentage *)

\* a count that takes an entry without a success field for passed
PassedCount_DefaultTrue(report) ==
    Cardinality({n \in DOMAIN report : Get(report[n], "success", TRUE)})

PassedCount(report) ==
    Cardinality({n \in DOMAIN report : Get(report[n], "success", FALSE)})

TotalCount(report) == Cardinality(DOMAIN report)

Percentage(p, t) == IF t > 0 THEN <<p * 100, t>> ELSE <<0, 1>>

\* percentage >= k
AtLeast(pct, k) == pct[1] >= k * pct[2]

-----------------------------------------------------------------------------
(* The readiness assessment *)

\* test_results.get(name, {}).get(field, default)
\* a lookup that lets an absent entry pass
Lookup_AbsentPasses(report, name, field, default) ==
    IF name \in DOMAIN report
    THEN Get(report[name], field, default)
    ELSE IF field = "success" THEN TRUE ELSE 0

Lookup(report, name, field, default) ==
    Get(Get(report, name, <<>>), field, default)

\* a check that never fails
Exists_Always(bin) == TRUE

\* binary_path.exists()
Exists(bin) == bin # "absent"

\* comprehensive_test.py: readiness_checklist
ReadinessChecklist(report, bin) ==
    ("Binary builds successfully" :> Exists(bin))
    @@ ("Help command functional" :>
          Lookup(report, "1. Help Command", "success", FALSE))
    @@ ("Query JSON format working" :>
          Lookup(report, "2a. Query Format - JSON", "success", FALSE))
    @@ ("Query Text format working" :>
          Lookup(report, "2b. Query Format - Text", "success", FALSE))
    @@ ("Query YAML format working" :>
          Lookup(report, "2c. Query Format - YAML", "success", FALSE))
    @@ ("Search encryption working" :>
          Lookup(report, "3a. Search - Encryption", "success", FALSE))
    @@ ("Search payment working" :>
          Lookup(report, "3b. Search - Payment", "success", FALSE))
    @@ ("Search user working" :>
          Lookup(report, "3c. Search - User", "success", FALSE))
    @@ ("List features working" :>
          Lookup(report, "4. List Features", "success", FALSE))
    @@ ("Get command functional" :>
          (Lookup(report, "5. Get Command", "returncode", HarnessFailureCode)
             \in {0, 1}))
    @@ ("Error handling proper" :>
          Lookup(report, "6. Error Handling", "success", FALSE))

QueryNames ==
    {"2a. Query Format - JSON", "2b. Query Format - Text",
     "2c. Query Format - YAML"}

SearchNames ==
    {"3a. Search - Encryption", "3b. Search - Payment", "3c. Search - User"}

\* final_test_round2.py: critical_tests
CriticalTests(report, bin) ==
    ("Binary builds" :> Exists(bin))
    @@ ("Help functional" :>
          Lookup(report, "1. Help Command", "success", FALSE))
    @@ ("Query working" :>
          (\A n \in QueryNames : Lookup(report, n, "success", FALSE)))
    @@ ("Search working" :>
          (\A n \in SearchNames : Lookup(report, n, "success", FALSE)))
    @@ ("List working" :>
          Lookup(report, "4. List Features", "success", FALSE))
    @@ ("Error handling" :>
          Lookup(report, "6. Error Handling", "success", FALSE))

Checklist(s, report, bin) ==
    IF s = "comprehensive_test"
    THEN ReadinessChecklist(report, bin)
    ELSE CriticalTests(report, bin)

AllReady(chk) == \A c \in DOMAIN chk : chk[c]

-----------------------------------------------------------------------------
(* The final decision and the exit status *)

\* a decision with the two thresholds exchanged
ComprehensiveDecision_Swapped(ready, pct) ==
    IF ready /\ AtLeast(pct, MostlyThreshold) THEN "ready"
    ELSE IF AtLeast(pct, ReadyThreshold) THEN "mostly-ready"
    ELSE "not-ready"

\* a decision that wants more than 90 percent
ComprehensiveDecision_Strict(ready, pct) ==
    IF ready /\ pct[1] > ReadyThreshold * pct[2] THEN "ready"
    ELSE IF AtLeast(pct, MostlyThreshold) THEN "mostly-ready"
    ELSE "not-ready"

ComprehensiveDecision(ready, pct) ==
    IF ready /\ AtLeast(pct, ReadyThreshold) THEN "ready"
    ELSE IF AtLeast(pct, MostlyThreshold) THEN "mostly-ready"
    ELSE "not-ready"

Round2Decision(ready, pct) ==
    IF AtLeast(pct, ReadyThreshold) THEN "ready"
    ELSE IF AtLeast(pct, MostlyThreshold) THEN "mostly-ready"
    ELSE "not-ready"

Decision(s, ready, pct) ==
    IF s = "comprehensive_test"
    THEN ComprehensiveDecision(ready, pct)
    ELSE Round2Decision(ready, pct)

\* an exit status that fails every run short of ready
ExitStatus_ReadyOnly(v) == IF v = "ready" THEN 0 ELSE NotReadyExit

\* the sys.exit of the branch
ExitStatus(v) == IF v = "not-ready" THEN NotReadyExit ELSE 0

-----------------------------------------------------------------------------
(* The commands' behaviour *)

\* the behaviour a Test Case's command is written for
Nominal(tc) ==
    CASE tc.name = "1. Help Command" -> Exit(0, <<HelpText>>, <<>>)
      [] tc.name = "2a. Query Format - JSON" -> Exit(0, <<JsonText>>, <<>>)
      [] tc.name = "6. Error Handling" -> Exit(1, <<NotFoundText>>, <<>>)
      [] OTHER -> Exit(0, <<OkText>>, <<>>)

\* a file that is not executable: the shell cannot run it (status 126), and
\* a pipeline's status is that of its last command
NotExecutable(tc) ==
    IF tc.piped
    THEN Exit(0, <<DeniedText>>, <<>>)
    ELSE Exit(126, <<>>, <<DeniedText>>)

EventsFor(bin, tc, dev) ==
    IF bin = "noexec" THEN {NotExecutable(tc)}
    ELSE IF dev < MaxDeviations THEN Events
    ELSE {Nominal(tc)}

Deviates(bin, tc, ev) == bin # "noexec" /\ ev # Nominal(tc)

-----------------------------------------------------------------------------
(* The scripts *)

NoResult == <<>>

\* build_output.txt before anything is written to it
Unwritten == <<"(not written)">>

\* run_tests.py never looks at the binary (its first command builds it), so
\* its runs are not told apart by the file's state
Init ==
    /\ script \in Scripts
    /\ binary \in {"absent", "noexec", "exec"}
    /\ (script = "run_tests" => binary = "exec")
    /\ pc = IF script \in HarnessScripts THEN "check" ELSE "tests"
    /\ idx = 0
    /\ test_results = <<>>
    /\ returned = NoResult
    /\ event = NoEvent
    /\ invoked = <<>>
    /\ deviations = 0
    /\ passed = 0
    /\ total = 0
    /\ percentage = <<0, 1>>
    /\ checklist = <<>>
    /\ all_ready = FALSE
    /\ verdict = "none"
    /\ exit_code = -1
    /\ codes = <<>>
    /\ build_file = Unwritten
    /\ fs = <<>>
    /\ moved = 0
    /\ faulted = {}

\* if binary_path.exists(): the test phase starts
BinaryFound ==
    /\ pc = "check"
    /\ Exists(binary)
    /\ pc' = "tests"
    /\ UNCHANGED <<script, binary, idx, test_results, returned, event, invoked,
                   deviations, passed, total, percentage, checklist, all_ready,
                   verdict, exit_code>>
    /\ UNCHANGED scriptVars

\* else: the synthetic entry
BinaryMissing ==
    /\ pc = "check"
    /\ ~Exists(binary)
    /\ test_results' = (BinaryCheck :> Entry(FALSE, BinaryMissingCode))
    /\ pc' = "summary"
    /\ UNCHANGED <<script, binary, idx, returned, event, invoked,
                   deviations, passed, total, percentage, checklist, all_ready,
                   verdict, exit_code>>
    /\ UNCHANGED scriptVars

\* one TEST block of a harness script: run_command, then the predicate
\* a TEST block that starts its command again after a harness failure
RunTest_Retry ==
    /\ pc = "tests"
    /\ script \in HarnessScripts
    /\ idx < Len(Catalog(script))
    /\ LET tc == Catalog(script)[idx + 1] IN
       \E ev \in EventsFor(binary, tc, deviations) :
         LET r == run_command(ev) IN
           /\ invoked' = Append(invoked, tc.name)
           /\ event' = ev
           /\ returned' = r
           /\ deviations' = IF Deviates(binary, tc, ev)
                            THEN deviations + 1 ELSE deviations
           /\ IF r.returncode = HarnessFailureCode
              THEN UNCHANGED <<idx, test_results, pc>>
              ELSE /\ test_results' =
                        (tc.name :> Entry(Overall(tc.policy, r), r.returncode))
                        @@ test_results
                   /\ idx' = idx + 1
                   /\ pc' = IF idx + 1 = Len(Catalog(script))
                            THEN "summary" ELSE "tests"
    /\ UNCHANGED <<script, binary, passed, total, percentage, checklist,
                   all_ready, verdict, exit_code>>
    /\ UNCHANGED scriptVars

RunTest ==
    /\ pc = "tests"
    /\ script \in HarnessScripts
    /\ idx < Len(Catalog(script))
    /\ LET tc == Catalog(script)[idx + 1] IN
       \E ev \in EventsFor(binary, tc, deviations) :
         LET r == run_command(ev) IN
           /\ invoked' = Append(invoked, tc.name)
           /\ event' = ev
           /\ returned' = r
           /\ deviations' = IF Deviates(binary, tc, ev)
                            THEN deviations + 1 ELSE deviations
           /\ IF Propagated(r)
              THEN /\ pc' = "crashed"
                   /\ exit_code' = 1
                   /\ UNCHANGED <<idx, test_results>>
              ELSE /\ test_results' =
                        (tc.name :> Entry(Overall(tc.policy, r), r.returncode))
                        @@ test_results
                   /\ idx' = idx + 1
                   /\ pc' = IF idx + 1 = Len(Catalog(script))
                            THEN "summary" ELSE "tests"
                   /\ UNCHANGED exit_code
    /\ UNCHANGED <<script, binary, passed, total, percentage, checklist,
                   all_ready, verdict>>
    /\ UNCHANGED scriptVars

\* run_tests.py: one iteration of the loop; after the last one the summary
\* is printed and the script ends
RunLoopTest ==
    /\ pc = "tests"
    /\ script = "run_tests"
    /\ idx < Len(Catalog(script))
    /\ LET tc == Catalog(script)[idx + 1] IN
       \E ev \in EventsFor(binary, tc, deviations) :
           /\ invoked' = Append(invoked, tc.name)
           /\ event' = ev
           /\ deviations' = IF Deviates(binary, tc, ev)
                            THEN deviations + 1 ELSE deviations
           /\ test_results' = (tc.name :> LoopEntry(ev)) @@ test_results
    /\ idx' = idx + 1
    /\ pc' = IF idx + 1 = Len(Catalog(script)) THEN "exited" ELSE "tests"
    /\ exit_code' = IF idx + 1 = Len(Catalog(script)) THEN 0 ELSE exit_code
    /\ UNCHANGED <<script, binary, returned, passed, total, percentage,
                   checklist, all_ready, verdict>>
    /\ UNCHANGED scriptVars

\* FINAL TEST SUMMARY
Summary ==
    /\ pc = "summary"
    /\ passed' = PassedCount(test_results)
    /\ total' = TotalCount(test_results)
    /\ percentage' = Percentage(passed', total')
    /\ pc' = "assess"
    /\ UNCHANGED <<script, binary, idx, test_results, returned, event, invoked,
                   deviations, checklist, all_ready, verdict, exit_code>>
    /\ UNCHANGED scriptVars

\* PRODUCTION READINESS ASSESSMENT: the checklist and all_ready
Assess ==
    /\ pc = "assess"
    /\ checklist' = Checklist(script, test_results, binary)
    /\ all_ready' = AllReady(checklist')
    /\ pc' = "decide"
    /\ UNCHANGED <<script, binary, idx, test_results, returned, event, invoked,
                   deviations, passed, total, percentage, verdict, exit_code>>
    /\ UNCHANGED scriptVars

\* the if / elif / else that ends the script
Decide ==
    /\ pc = "decide"
    /\ verdict' = Decision(script, all_ready, percentage)
    /\ exit_code' = ExitStatus(verdict')
    /\ pc' = "exited"
    /\ UNCHANGED <<script, binary, idx, test_results, returned, event, invoked,
                   deviations, passed, total, percentage, checklist, all_ready>>
    /\ UNCHANGED scriptVars

Next ==
    \/ BinaryFound
    \/ BinaryMissing
    \/ RunTest
    \/ RunLoopTest
    \/ Summary
    \/ Assess
    \/ Decide

Spec == Init /\ [][Next]_vars

-----------------------------------------------------------------------------
(* The evaluator alone, on any report: every set of at most MaxEvalEntries *)
(* names, each with an entry that may lack a field                          *)

EvalNames == CatalogNames("comprehensive_test") \cup {BinaryCheck}

EvalEntries ==
    { Entry(TRUE, 0),
      Entry(FALSE, 1),
      [returncode |-> 0],
      [success |-> TRUE] }

EvalReports ==
    UNION { [N -> EvalEntries] :
              N \in {S \in SUBSET EvalNames : Cardinality(S) <= MaxEvalEntries} }

InitEval ==
    /\ script \in HarnessScripts
    /\ binary \in {"absent", "exec"}
    /\ pc = "summary"
    /\ idx = 0
    /\ test_results \in EvalReports
    /\ returned = NoResult
    /\ event = NoEvent
    /\ invoked = <<>>
    /\ deviations = 0
    /\ passed = 0
    /\ total = 0
    /\ percentage = <<0, 1>>
    /\ checklist = <<>>
    /\ all_ready = FALSE
    /\ verdict = "none"
    /\ exit_code = -1
    /\ codes = <<>>
    /\ build_file = Unwritten
    /\ fs = <<>>
    /\ moved = 0
    /\ faulted = {}

NextEval ==
    \/ Summary
    \/ Assess
    \/ Decide

SpecEval == InitEval /\ [][NextEval]_vars

-----------------------------------------------------------------------------
(* Properties *)

\* the report as the specification counts it
ClaimPassed ==
    Cardinality({n \in DOMAIN test_results :
                   /\ "success" \in DOMAIN test_results[n]
                   /\ test_results[n].success})

ClaimTotal == Cardinality(DOMAIN test_results)

\* pass-rate >= k percent
RateAtLeast(k) == ClaimTotal > 0 /\ 100 * ClaimPassed >= k * ClaimTotal

EveryCriterion == \A c \in DOMAIN checklist : checklist[c]

Evaluated == pc = "exited" /\ script \in HarnessScripts

AfterTests == {"summary", "assess", "decide", "exited"}

\* C1: in both harness scripts the verdict is ready exactly when every
\* criterion of the checklist is true and the pass-rate is at least 90,
\* mostly-ready exactly when it is not ready and the pass-rate is at least
\* 70, and not-ready otherwise.
C1_VerdictPolicy ==
    Evaluated =>
      /\ verdict \in {"ready", "mostly-ready", "not-ready"}
      /\ verdict = "ready" <=> (EveryCriterion /\ RateAtLeast(90))
      /\ verdict = "mostly-ready" <=>
           (~(EveryCriterion /\ RateAtLeast(90)) /\ RateAtLeast(70))

\* C2: a harness script exits 0 exactly on ready or mostly-ready and
\* nonzero exactly on not-ready; the exit status is nonzero exactly when the
\* pass-rate is below 70, whatever the checklist says.
C2_ExitStatus ==
    Evaluated =>
      /\ exit_code = 0 <=> verdict \in {"ready", "mostly-ready"}
      /\ exit_code # 0 <=> verdict = "not-ready"
      /\ exit_code # 0 <=> ~RateAtLeast(70)

\* a run at 70 percent or more that exits 0 with a failed criterion
C2_Witness ==
    /\ Evaluated
    /\ exit_code = 0
    /\ verdict = "mostly-ready"
    /\ ~EveryCriterion
    /\ ClaimPassed = 7

\* C3: the pass-rate is 100 * (entries whose success is true) / (entries);
\* an entry without a success field is not passed; an empty report gives 0
\* and no division fault.
C3_PassRate ==
    (script \in HarnessScripts /\ pc \in {"assess", "decide", "exited"}) =>
      /\ passed = ClaimPassed
      /\ total = ClaimTotal
      /\ percentage[2] > 0
      /\ IF ClaimTotal = 0
         THEN percentage[1] = 0
         ELSE percentage[1] * ClaimTotal = 100 * ClaimPassed * percentage[2]

\* a summary of three entries, one passed and one without a success field
C3_Witness ==
    /\ pc = "assess"
    /\ ClaimTotal = 3
    /\ ClaimPassed = 1
    /\ \E n \in DOMAIN test_results : "success" \notin DOMAIN test_results[n]
    /\ percentage = <<100, 3>>

\* the Test Case names a criterion is derived from
CriterionRefs(s) ==
    IF s = "comprehensive_test"
    THEN ("Help command functional" :> {"1. Help Command"})
         @@ ("Query JSON format working" :> {"2a. Query Format - JSON"})
         @@ ("Query Text format working" :> {"2b. Query Format - Text"})
         @@ ("Query YAML format working" :> {"2c. Query Format - YAML"})
         @@ ("Search encryption working" :> {"3a. Search - Encryption"})
         @@ ("Search payment working" :> {"3b. Search - Payment"})
         @@ ("Search user working" :> {"3c. Search - User"})
         @@ ("List features working" :> {"4. List Features"})
         @@ ("Get command functional" :> {"5. Get Command"})
         @@ ("Error handling proper" :> {"6. Error Handling"})
    ELSE ("Help functional" :> {"1. Help Command"})
         @@ ("Query working" :>
               {"2a. Query Format - JSON", "2b. Query Format - Text",
                "2c. Query Format - YAML"})
         @@ ("Search working" :>
               {"3a. Search - Encryption", "3b. Search - Payment",
                "3c. Search - User"})
         @@ ("List working" :> {"4. List Features"})
         @@ ("Error handling" :> {"6. Error Handling"})

\* C4: a criterion derived from Test Case names is false whenever one of
\* the names it refers to is absent from the report (single names, the
\* return-code lookup of the Get criterion, and the grouped criteria).
C4_AbsentResolvesFalse ==
    (script \in HarnessScripts /\ pc \in {"decide", "exited"}) =>
      \A c \in DOMAIN CriterionRefs(script) :
        /\ c \in DOMAIN checklist
        /\ (\E n \in CriterionRefs(script)[c] : n \notin DOMAIN test_results)
             => checklist[c] = FALSE

\* two of the three query entries passed, the third is absent
C4_Witness ==
    /\ pc = "decide"
    /\ script = "final_test_round2"
    /\ DOMAIN test_results =
         {"2a. Query Format - JSON", "2b. Query Format - Text"}
    /\ \A n \in DOMAIN test_results : test_results[n] = Entry(TRUE, 0)
    /\ checklist["Query working"] = FALSE

\* C5: with the binary absent no Test Case command is invoked, the report
\* is the single synthetic Binary Check failure, the pass-rate is 0, the
\* verdict is not-ready and the exit status is nonzero.
C5_BinaryAbsent ==
    (script \in HarnessScripts /\ binary = "absent") =>
      /\ invoked = <<>>
      /\ pc \in {"check"} \cup AfterTests
      /\ pc \in AfterTests =>
           /\ DOMAIN test_results = {BinaryCheck}
           /\ test_results[BinaryCheck].success = FALSE
      /\ pc \in {"assess", "decide", "exited"} =>
           /\ total = 1
           /\ percentage[1] = 0
      /\ pc = "exited" => verdict = "not-ready" /\ exit_code # 0

\* the run without a binary has exited
C5_Witness ==
    /\ script \in HarnessScripts
    /\ binary = "absent"
    /\ pc = "exited"
    /\ exit_code = 1
    /\ DOMAIN test_results = {BinaryCheck}

\* C6: a binary that exists but is not executable aborts the suite like an
\* absent one: no Test Case command is invoked and the report holds only
\* the synthetic failure.
C6_NotExecutableAborts ==
    (script \in HarnessScripts /\ binary = "noexec") =>
      /\ invoked = <<>>
      /\ pc \in AfterTests => DOMAIN test_results = {BinaryCheck}

FirstNames(s, k) == {Catalog(s)[i].name : i \in 1..k}

\* C7: with the binary present, whatever the commands do, the suite runs to
\* the end and the report holds an entry for every Test Case of the catalog
\* (10 in a harness script, 6 in run_tests.py); a failed, timed-out or
\* crashed Test Case never keeps a later one from being run and recorded.
C7_EveryCaseRecorded ==
    (script = "run_tests" \/ binary # "absent") =>
      /\ pc \in {"check", "tests"} \cup AfterTests
      /\ pc = "tests" =>
           /\ idx < Len(Catalog(script))
           /\ DOMAIN test_results = FirstNames(script, idx)
           /\ ENABLED (RunTest \/ RunLoopTest)
      /\ pc \in AfterTests =>
           /\ DOMAIN test_results = CatalogNames(script)
           /\ ClaimTotal = IF script = "run_tests" THEN 6 ELSE 10

\* a run whose first command could not be spawned and whose second timed
\* out has recorded all ten
C7_Witness ==
    /\ pc = "exited"
    /\ script \in HarnessScripts
    /\ binary = "exec"
    /\ DOMAIN test_results = CatalogNames(script)
    /\ test_results["1. Help Command"] = Entry(FALSE, HarnessFailureCode)
    /\ test_results["2a. Query Format - JSON"].returncode = HarnessFailureCode
    /\ test_results["2b. Query Format - Text"] = Entry(FALSE, 1)
    /\ test_results["6. Error Handling"].returncode = 1

ResultFields == {"success", "returncode", "output", "stdout", "stderr"}

\* C8: run_command hands every failure back as data: a dict with the five
\* fields; on a timeout returncode -1, success false and stderr 'Command
\* timed out'; on any other failure returncode -1, success false and the
\* exception's message in stderr.
C8_PrimitiveReturnsData ==
    (script \in HarnessScripts /\ invoked # <<>>) =>
      /\ pc # "crashed"
      /\ DOMAIN returned = ResultFields
      /\ event.kind = "timeout" =>
           /\ returned.returncode = -1
           /\ returned.success = FALSE
           /\ returned.stderr = <<"Command timed out">>
      /\ event.kind = "raise" =>
           /\ returned.returncode = -1
           /\ returned.success = FALSE
           /\ returned.stderr = <<event.msg>>

\* a command has just timed out
C8_Witness ==
    /\ script \in HarnessScripts
    /\ event.kind = "timeout"
    /\ DOMAIN returned = ResultFields
    /\ returned.returncode = -1
    /\ returned.stderr = <<TimeoutMarker>>

\* C9: in both harness catalogs a Test Case whose command timed out or
\* could not be spawned (returncode -1) is recorded as failed, and is not
\* invoked again.
C9_AbnormalRecordedFailed ==
    script \in HarnessScripts =>
      /\ \A n \in DOMAIN test_results :
           test_results[n].returncode = HarnessFailureCode
             => test_results[n].success = FALSE
      /\ \A i, j \in 1..Len(invoked) : invoked[i] = invoked[j] => i = j

\* the Test Cases whose success is the primitive's (exit status zero)
DefaultCases(s) ==
    {Catalog(s)[i].name : i \in {k \in 1..Len(Catalog(s)) :
        Catalog(s)[k].policy \in {"default", "as-returned", "loop"}}}

\* C10: for a Test Case with the default predicate the recorded success is
\* true exactly when the recorded exit status is 0; a timeout or internal
\* failure (-1) is recorded as failed.
C10_DefaultPredicate ==
    \A n \in DOMAIN test_results \cap DefaultCases(script) :
      test_results[n].success <=> test_results[n].returncode = 0

\* Get Command of comprehensive_test.py timed out and is recorded failed,
\* next to a query case that exited 1
C10_Witness ==
    /\ script = "comprehensive_test"
    /\ "5. Get Command" \in DOMAIN test_results
    /\ test_results["5. Get Command"] = Entry(FALSE, HarnessFailureCode)
    /\ test_results["2b. Query Format - Text"] = Entry(FALSE, 1)
    /\ test_results["3a. Search - Encryption"] = Entry(TRUE, 0)


\* the fragments that hold a word in some letter case
Mentioning(word) ==
    CASE word = "error" -> {ErrorText, "error: failed"}
      [] word = "not found" -> {NotFoundText, "not found"}
      [] OTHER -> {}

\* the word occurs in the text, letter case ignored
ClaimMentions(text, word) ==
    \E i \in 1..Len(text) : text[i] \in Mentioning(word)

\* the latest run_command call was this Test Case's, and it is recorded
LastRan(name) ==
    /\ script \in HarnessScripts
    /\ pc # "crashed"
    /\ Len(invoked) >= 1
    /\ invoked[Len(invoked)] = name
    /\ name \in DOMAIN test_results

\* C11: '6. Error Handling' of both harness scripts is recorded as passed
\* exactly when its exit status is nonzero or its combined output holds
\* 'not found' or 'error' in any letter case: nonzero with 'not found' is a
\* pass, zero with neither marker is a failure.
C11_InversePolicy ==
    LastRan("6. Error Handling") =>
      /\ test_results["6. Error Handling"].success <=>
           \/ returned.returncode # 0
           \/ ClaimMentions(returned.output, "not found")
           \/ ClaimMentions(returned.output, "error")
      /\ (returned.returncode # 0
          /\ ClaimMentions(returned.output, "not found"))
           => test_results["6. Error Handling"].success
      /\ (returned.returncode = 0
          /\ ~ClaimMentions(returned.output, "not found")
          /\ ~ClaimMentions(returned.output, "error"))
           => ~test_results["6. Error Handling"].success

\* the command exited 1 printing 'Not Found' and is recorded as passed
C11_Witness ==
    /\ LastRan("6. Error Handling")
    /\ binary = "exec"
    /\ returned.returncode = 1
    /\ returned.output = <<NotFoundText>>
    /\ test_results["6. Error Handling"] = Entry(TRUE, 1)

\* the lenient Test Cases of final_test_round2.py
LenientCases ==
    {"3a. Search - Encryption", "3b. Search - Payment", "3c. Search - User",
     "4. List Features"}

\* C12: a lenient Test Case of final_test_round2.py (the three searches and
\* List Features) is recorded as passed exactly when its exit status is
\* zero or its combined output does not hold 'error' in any letter case.
C12_LenientPolicy ==
    \A n \in LenientCases :
      (script = "final_test_round2" /\ LastRan(n)) =>
        /\ test_results[n].success <=>
             \/ returned.returncode = 0
             \/ ~ClaimMentions(returned.output, "error")
        /\ test_results[n].returncode = returned.returncode

\* a search exited 1 with 'Error: failed' on stderr and is recorded failed
C12_Witness ==
    /\ script = "final_test_round2"
    /\ LastRan("3b. Search - Payment")
    /\ returned.returncode = 1
    /\ returned.output = <<OkText, ErrorText>>
    /\ test_results["3b. Search - Payment"] = Entry(FALSE, 1)

\* not-ready < mostly-ready < ready
Rank(v) ==
    CASE v = "ready" -> 2
      [] v = "mostly-ready" -> 1
      [] OTHER -> 0

\* C13: with the checklist held fixed, a higher pass-rate never gets a
\* lower tier; a pass-rate of 70 or more is never not-ready and one below
\* 70 is always not-ready.
C13_TierMonotonic ==
    Evaluated =>
      /\ \A p1, p2 \in 0..total :
           p1 <= p2 =>
             Rank(Decision(script, all_ready, Percentage(p1, total)))
               <= Rank(Decision(script, all_ready, Percentage(p2, total)))
      /\ \A p \in 0..total :
           /\ p <= passed =>
                Rank(Decision(script, all_ready, Percentage(p, total)))
                  <= Rank(verdict)
           /\ p >= passed =>
                Rank(Decision(script, all_ready, Percentage(p, total)))
                  >= Rank(verdict)
           /\ 100 * p >= 70 * total <=>
                Decision(script, all_ready, Percentage(p, total)) # "not-ready"
      /\ RateAtLeast(70) <=> verdict # "not-ready"

\* nine of ten passed with a failed criterion: mostly-ready, where six of
\* ten with the same checklist is not-ready
C13_Witness ==
    /\ Evaluated
    /\ script = "comprehensive_test"
    /\ total = 10
    /\ passed = 9
    /\ ~all_ready
    /\ verdict = "mostly-ready"
    /\ Decision(script, all_ready, Percentage(6, total)) = "not-ready"

\* C14: a run with the binary present, ten Test Cases recorded, nine passed
\* and one failed with exit status 1, and every criterion satisfied, has
\* pass-rate 90, verdict ready and exit status 0; such a run exists.
C14_ScenarioB ==
    (/\ Evaluated
     /\ binary # "absent"
     /\ ClaimTotal = 10
     /\ ClaimPassed = 9
     /\ \E n \in DOMAIN test_results :
          ~test_results[n].success /\ test_results[n].returncode = 1
     /\ EveryCriterion)
      => /\ percentage[1] = 90 * percentage[2]
         /\ verdict = "ready"
         /\ exit_code = 0

\* comprehensive_test.py: Get Command exited 1, the other nine passed, and
\* the checklist is all true
C14_Witness ==
    /\ Evaluated
    /\ script = "comprehensive_test"
    /\ binary = "exec"
    /\ ClaimTotal = 10
    /\ ClaimPassed = 9
    /\ test_results["5. Get Command"] = Entry(FALSE, 1)
    /\ EveryCriterion
    /\ DOMAIN checklist # {}
    /\ percentage = <<900, 10>>
    /\ verdict = "ready"
    /\ exit_code = 0

\* C15: the combined output of every dict run_command returns, the timeout
\* and failure ones included, is its stdout followed by its stderr.
C15_OutputIsConcat ==
    (script \in HarnessScripts /\ invoked # <<>> /\ DOMAIN returned = ResultFields)
      => returned.output = returned.stdout \o returned.stderr

\* the Test Cases in the order the specification lists them
ClaimOrder ==
    << "1. Help Command", "2a. Query Format - JSON", "2b. Query Format - Text",
       "2c. Query Format - YAML", "3a. Search - Encryption",
       "3b. Search - Payment", "3c. Search - User", "4. List Features",
       "5. Get Command", "6. Error Handling" >>

\* C16: with the binary present, a harness script starts the command of
\* each Test Case exactly once, in the listed order: at every moment the
\* commands started so far are the first k names of the list, each started
\* once, and the report holds an outcome for every one of them, so that the
\* next command starts only after the previous outcome is recorded; at the
\* summary k = 10, whatever the outcomes were.
C16_OncePerCaseInOrder ==
    (script \in HarnessScripts /\ binary # "absent" /\ pc # "check") =>
      /\ Len(invoked) <= Len(ClaimOrder)
      /\ invoked = SubSeq(ClaimOrder, 1, Len(invoked))
      /\ \A i, j \in 1..Len(invoked) : invoked[i] = invoked[j] => i = j
      /\ DOMAIN test_results = {invoked[i] : i \in 1..Len(invoked)}
      /\ pc \in AfterTests => Len(invoked) = Len(ClaimOrder)

\* a finished run in which a command timed out and one exited non-zero:
\* ten commands were started, in order
C16_Witness ==
    /\ script \in HarnessScripts /\ binary = "exec" /\ pc = "exited"
    /\ invoked = ClaimOrder
    /\ test_results["2b. Query Format - Text"].returncode = HarnessFailureCode
    /\ test_results["3a. Search - Encryption"].returncode = 1

-----------------------------------------------------------------------------
\* install_and_build.py

\* the longest output, in lines, a step's command prints
MaxOutputLines == 2

InstallOutputs ==
    UNION {[1..n -> {OkText, ErrorText}] : n \in 0..MaxOutputLines}

\* what a step's shell command can do: exit with a status after printing
\* (stderr goes to the same pipe), or fail to start
InstallEvents ==
    {Exit(rc, out, <<>>) : rc \in {0, 1, 101}, out \in InstallOutputs}
        \cup {Raised(SpawnMessage)}

\* this script's run_command: (output, exit_code), and (str(e), 1) when
\* Popen or the reading of the pipe raises
install_run_command(ev) ==
    IF ev.kind = "raise"
    THEN [output |-> <<ev.msg>>, exit_code |-> 1]
    ELSE [output |-> ev.stdout \o ev.stderr, exit_code |-> ev.rc]

\* the descriptions of the three steps of main
InstallSteps ==
    <<"Install Rust toolchain", "Verify Rust installation",
      "Build the Rust project">>

\* a step condition that lets every status but 1 through
Failed_OnlyOne(code) == code = 1

\* `if exit_code != 0:` after the install and the verify step
Failed(code) == code # 0

\* every variable of the test scripts, idle
HarnessIdle ==
    /\ binary = "absent"
    /\ idx = 0
    /\ test_results = <<>>
    /\ deviations = 0
    /\ passed = 0
    /\ total = 0
    /\ percentage = <<0, 1>>
    /\ checklist = <<>>
    /\ all_ready = FALSE
    /\ verdict = "none"

harnessVars ==
    <<script, binary, idx, test_results, deviations, passed, total,
      percentage, checklist, all_ready, verdict>>

InitInstall ==
    /\ script = "install_and_build"
    /\ pc = "install"
    /\ HarnessIdle
    /\ returned = NoResult
    /\ event = NoEvent
    /\ invoked = <<>>
    /\ exit_code = -1
    /\ codes = <<>>
    /\ build_file = Unwritten
    /\ fs = <<>>
    /\ moved = 0
    /\ faulted = {}

\* one call of run_command from main: the step is announced, its command
\* runs to its end, and output, exit_code are rebound
Step(k, ev) ==
    LET r == install_run_command(ev) IN
      /\ invoked' = Append(invoked, InstallSteps[k])
      /\ event' = ev
      /\ returned' = r
      /\ codes' = Append(codes, r.exit_code)

\* step 1 and the `return` under it
InstallStep ==
    /\ script = "install_and_build" /\ pc = "install"
    /\ \E ev \in InstallEvents :
         /\ Step(1, ev)
         /\ pc' = IF Failed(install_run_command(ev).exit_code)
                  THEN "returned" ELSE "verify"
    /\ UNCHANGED <<harnessVars, exit_code, build_file, fs, moved, faulted>>

\* step 2 and the `return` under it
VerifyStep ==
    /\ script = "install_and_build" /\ pc = "verify"
    /\ \E ev \in InstallEvents :
         /\ Step(2, ev)
         /\ pc' = IF Failed(install_run_command(ev).exit_code)
                  THEN "returned" ELSE "build"
    /\ UNCHANGED <<harnessVars, exit_code, build_file, fs, moved, faulted>>

\* step 3; nothing is tested after it
BuildStep ==
    /\ script = "install_and_build" /\ pc = "build"
    /\ \E ev \in InstallEvents : Step(3, ev)
    /\ pc' = "save"
    /\ UNCHANGED <<harnessVars, exit_code, build_file, fs, moved, faulted>>

\* the output of the build is written to build_output.txt
SaveOutput ==
    /\ script = "install_and_build" /\ pc = "save"
    /\ build_file' = returned.output
    /\ pc' = "exit"
    /\ UNCHANGED <<harnessVars, returned, event, invoked, exit_code, codes,
                   fs, moved, faulted>>

\* open() raises (the project directory is missing): main ends with a
\* traceback, before sys.exit
SaveFails ==
    /\ script = "install_and_build" /\ pc = "save"
    /\ pc' = "crashed"
    /\ UNCHANGED <<harnessVars, returned, event, invoked, exit_code, codes,
                   build_file, fs, moved, faulted>>

\* sys.exit(exit_code) with the value the build step bound
SysExit ==
    /\ script = "install_and_build" /\ pc = "exit"
    /\ exit_code' = returned.exit_code
    /\ pc' = "exited"
    /\ UNCHANGED <<harnessVars, returned, event, invoked, codes, build_file,
                   fs, moved, faulted>>

NextInstall ==
    \/ InstallStep
    \/ VerifyStep
    \/ BuildStep
    \/ SaveOutput
    \/ SaveFails
    \/ SysExit

SpecInstall == InitInstall /\ [][NextInstall]_vars

\* C17: install_and_build.py runs install, verify, build in that order and
\* starts a step only after every earlier step returned exit code 0: a
\* failed install is followed by neither verify nor build, a failed verify
\* not by build; build_output.txt is written, and sys.exit is called, only
\* after the build step ran, the file holding the build's output and
\* sys.exit getting the build's exit code.
C17_StepsGated ==
    script = "install_and_build" =>
      /\ Len(invoked) <= 3
      /\ invoked = SubSeq(<<"Install Rust toolchain",
                            "Verify Rust installation",
                            "Build the Rust project">>, 1, Len(invoked))
      /\ Len(codes) = Len(invoked)
      /\ \A i \in 1..Len(invoked) : \A j \in 1..(i - 1) : codes[j] = 0
      /\ pc = "returned" =>
            Len(invoked) \in {1, 2} /\ codes[Len(codes)] # 0
      /\ build_file # Unwritten =>
            Len(invoked) = 3 /\ build_file = returned.output
      /\ exit_code # -1 => pc = "exited"
      /\ pc = "exited" => Len(invoked) = 3 /\ exit_code = codes[3]

\* install and verify succeeded, the build ended with 101: its output is in
\* the file and 101 is the script's exit status
C17_Witness ==
    /\ script = "install_and_build" /\ pc = "exited"
    /\ codes = <<0, 0, 101>>
    /\ build_file = <<ErrorText>>
    /\ exit_code = 101

\* the verify step failed: the script is over, nothing was built or written
C17_WitnessVerifyFailed ==
    /\ script = "install_and_build" /\ pc = "returned"
    /\ codes = <<0, 1>>
    /\ build_file = Unwritten

-----------------------------------------------------------------------------
\* scripts/cleanup.py: move_files on script_moves

Pair(s, d) == [src |-> s, dst |-> d]

\* script_moves, in the order the dict is iterated
ScriptMoves ==
    << Pair("build-extension.sh", "scripts/build-extension.sh"),
       Pair("build-extension.ps1", "scripts/build-extension.ps1"),
       Pair("run_ide_tests.sh", "scripts/run_ide_tests.sh"),
       Pair("run_ide_tests.ps1", "scripts/run_ide_tests.ps1"),
       Pair("test_mcp.sh", "scripts/test_mcp.sh") >>

Pairs == 1..Len(ScriptMoves)

Paths == {ScriptMoves[i].src : i \in Pairs} \cup {ScriptMoves[i].dst : i \in Pairs}

\* what a path of the project can hold: nothing, a regular file with its
\* data, or a symbolic link with the path it names
NoEntry == [kind |-> "none", data |-> ""]

File(c) == [kind |-> "file", data |-> c]

Link(t) == [kind |-> "link", data |-> t]

\* what the operating system finds at a path, following a symbolic link
Target(fsys, p) ==
    LET e == fsys[p] IN
      IF e.kind = "link"
      THEN IF e.data \in DOMAIN fsys /\ fsys[e.data].kind = "file"
           THEN fsys[e.data] ELSE NoEntry
      ELSE e

\* Path.exists(): true when the path, links followed, leads to a file
PathExists(fsys, p) == Target(fsys, p).kind = "file"

\* Path.rename(dst): the entry moves to dst
Rename(fsys, s, d) == [fsys EXCEPT ![d] = fsys[s], ![s] = NoEntry]

\* Path.unlink(): the entry is removed
Unlink(fsys, s) == [fsys EXCEPT ![s] = NoEntry]

\* a project tree before the call: each script is in the root or not, and
\* its place under scripts/ is free, taken by an older file, or taken by a
\* link back to the script in the root
InitCleanup ==
    /\ script = "cleanup"
    /\ pc = "move"
    /\ HarnessIdle
    /\ returned = NoResult
    /\ event = NoEvent
    /\ invoked = <<>>
    /\ exit_code = -1
    /\ codes = <<>>
    /\ build_file = Unwritten
    /\ \E s \in [Pairs -> {NoEntry, File("new")}] :
       \E d \in [Pairs -> {"none", "file", "link"}] :
         fs = [p \in Paths |->
                 LET i == CHOOSE k \in Pairs :
                            p \in {ScriptMoves[k].src, ScriptMoves[k].dst}
                 IN IF p = ScriptMoves[i].src THEN s[i]
                    ELSE CASE d[i] = "none" -> NoEntry
                           [] d[i] = "file" -> File("old")
                           [] OTHER -> Link(ScriptMoves[i].src)]
    /\ moved = 0
    /\ faulted = {}

\* the loop's next pair is done with; after the last one move_files returns
Advance ==
    /\ idx' = idx + 1
    /\ pc' = IF idx + 1 = Len(ScriptMoves) THEN "done" ELSE "move"
    /\ UNCHANGED <<script, binary, test_results, deviations, passed, total,
                   percentage, checklist, all_ready, verdict, returned, event,
                   invoked, exit_code, codes, build_file>>

\* `if src_path.exists():` is false
MoveSkip ==
    /\ script = "cleanup" /\ pc = "move"
    /\ ~PathExists(fs, ScriptMoves[idx + 1].src)
    /\ UNCHANGED <<fs, moved, faulted>>
    /\ Advance

\* the destination does not exist: rename, and count
MoveRename ==
    /\ script = "cleanup" /\ pc = "move"
    /\ LET p == ScriptMoves[idx + 1] IN
         /\ PathExists(fs, p.src)
         /\ ~PathExists(fs, p.dst)
         /\ fs' = Rename(fs, p.src, p.dst)
    /\ moved' = moved + 1
    /\ UNCHANGED faulted
    /\ Advance

\* the destination exists: the source is removed
MoveUnlink ==
    /\ script = "cleanup" /\ pc = "move"
    /\ LET p == ScriptMoves[idx + 1] IN
         /\ PathExists(fs, p.src)
         /\ PathExists(fs, p.dst)
         /\ fs' = Unlink(fs, p.src)
    /\ UNCHANGED <<moved, faulted>>
    /\ Advance

\* mkdir, rename or unlink raises: the except clause reports it
MoveFault ==
    /\ script = "cleanup" /\ pc = "move"
    /\ PathExists(fs, ScriptMoves[idx + 1].src)
    /\ faulted' = faulted \cup {idx + 1}
    /\ UNCHANGED <<fs, moved>>
    /\ Advance

NextCleanup ==
    \/ MoveSkip
    \/ MoveRename
    \/ MoveUnlink
    \/ MoveFault

SpecCleanup == InitCleanup /\ [][NextCleanup]_vars

\* the pairs whose destination now holds the file that was the source
Renamed == {i \in Pairs : fs[ScriptMoves[i].dst] = File("new")}

\* what one pass of move_files' loop may do to the pair it handles
PairHandled ==
    LET s == ScriptMoves[idx + 1].src
        d == ScriptMoves[idx + 1].dst
    IN /\ \A p \in Paths \ {s, d} : fs'[p] = fs[p]
       /\ PathExists(fs, d) => Target(fs', d) = Target(fs, d)
       /\ ~PathExists(fs, s) => fs' = fs /\ moved' = moved
       /\ (PathExists(fs, s) /\ faulted' = faulted) =>
            IF PathExists(fs, d)
            THEN ~PathExists(fs', s) /\ moved' = moved
            ELSE /\ Target(fs', d) = Target(fs, s)
                 /\ ~PathExists(fs', s)
                 /\ moved' = moved + 1

\* C18: move_files never overwrites an existing destination. Handling a
\* pair whose source exists, it renames the source to a destination that
\* does not exist and counts it; it leaves what an existing destination
\* holds unchanged, deletes the source and does not count; a pair whose
\* source does not exist changes nothing. When no filesystem call failed,
\* no source exists after the call and the count is the number of renames.
C18_NeverOverwrites ==
    /\ [][(script = "cleanup" /\ pc = "move") => PairHandled]_vars
    /\ []((script = "cleanup" /\ pc = "done" /\ faulted = {}) =>
            /\ \A i \in Pairs : ~PathExists(fs, ScriptMoves[i].src)
            /\ moved = Cardinality(Renamed))
=============================================================================
